---- MODULE Spec2Model ----
(***************************************************************************)
(* Task tools of src/main.py (get_tasks, create_task, update_task) over    *)
(* the worksheet `sheet` of src/google_sheets_client.py.                   *)
(*                                                                         *)
(* A due_date string is a sequence of one-character strings, so that       *)
(* datetime.strptime(due_date, "%Y-%m-%d") is modelled character by        *)
(* character.  Task descriptions and statuses are only compared, tested    *)
(* for emptiness and embedded in messages; they are TLA+ strings.          *)
(* An optional argument is a record [given, val]; given = FALSE is         *)
(* Python's None (the parameter's default).                                *)
(***************************************************************************)
EXTENDS Integers, Sequences, FiniteSets, TLC

VARIABLES
    store,   \* the worksheet's data rows (sheet rows 2, 3, ...), each <<task, due_date, status>>
    call,    \* the tool call that ran last: [op, task, due_date, status]
    result,  \* what that call returned
    prev,    \* the data rows as they were when that call started
    pc,      \* SpecRace: each process's position inside update_task
    arg,     \* SpecRace: each process's arguments
    recs,    \* SpecRace: each process's local `records` (line 37)
    ret      \* SpecRace: each process's return value

vars == <<store, call, result, prev, pc, arg, recs, ret>>

seqVars == <<store, call, result, prev>>
raceVars == <<pc, arg, recs, ret>>

----------------------------------------------------------------------------
(* Bounds and input sets *)

MaxRows == 2

Procs == {1, 2}

None == [given |-> FALSE, val |-> <<>>]
NoStatus == [given |-> FALSE, val |-> ""]
Some(v) == [given |-> TRUE, val |-> v]

D_ISO      == <<"2","0","2","5","-","0","6","-","0","5">>
D_LEAP     == <<"2","0","2","4","-","0","2","-","2","9">>
D_SHORT    == <<"2","0","2","5","-","6","-","5">>
D_EMPTY    == <<>>
D_SLASH    == <<"2","0","2","5","/","0","6","/","0","5">>
D_NOLEAP   == <<"2","0","2","5","-","0","2","-","2","9">>

\* D_ISO and D_SHORT pass strptime; D_EMPTY, D_SLASH and D_NOLEAP raise ValueError.
DateInputs == {D_ISO, D_SHORT, D_EMPTY, D_SLASH, D_NOLEAP}

Tasks == {"Write abstract", "Search papers"}

CreateStatusArgs == {NoStatus, Some("done")}
UpdateStatusArgs == {NoStatus, Some(""), Some("done"), Some("completed")}
UpdateDateArgs == {None} \cup {Some(d) : d \in DateInputs}

----------------------------------------------------------------------------
(* datetime.strptime(due_date, "%Y-%m-%d") *)

Digits == {"0","1","2","3","4","5","6","7","8","9"}
NonZero == Digits \ {"0"}

DigitVal(c) ==
    CASE c = "0" -> 0 [] c = "1" -> 1 [] c = "2" -> 2 [] c = "3" -> 3
      [] c = "4" -> 4 [] c = "5" -> 5 [] c = "6" -> 6 [] c = "7" -> 7
      [] c = "8" -> 8 [] c = "9" -> 9 [] OTHER -> 0

\* The character at position i, or "" past the end.
At(s, i) == IF i \in 1..Len(s) THEN s[i] ELSE ""

\* %Y is \d\d\d\d
YearMatches(s) == \A i \in 1..4 : At(s, i) \in Digits

\* %m is 1[0-2]|0[1-9]|[1-9], tried in that order at position i, and the
\* literal "-" must follow; the number of characters taken, 0 for no match.
MonthLen(s, i) ==
    IF /\ \/ (At(s, i) = "1" /\ At(s, i + 1) \in {"0", "1", "2"})
          \/ (At(s, i) = "0" /\ At(s, i + 1) \in NonZero)
       /\ At(s, i + 2) = "-"
    THEN 2
    ELSE IF At(s, i) \in NonZero /\ At(s, i + 1) = "-" THEN 1 ELSE 0

\* %d is 3[0-1]|[1-2]\d|0[1-9]|[1-9]| [1-9], tried in that order at i; the
\* number of characters taken, 0 for no match.
DayLen(s, i) ==
    IF \/ (At(s, i) = "3" /\ At(s, i + 1) \in {"0", "1"})
       \/ (At(s, i) \in {"1", "2"} /\ At(s, i + 1) \in Digits)
       \/ (At(s, i) = "0" /\ At(s, i + 1) \in NonZero)
    THEN 2
    ELSE IF At(s, i) \in NonZero THEN 1
    ELSE IF At(s, i) = " " /\ At(s, i + 1) \in NonZero THEN 2 ELSE 0

\* int() of the characters i..j of s, blanks skipped.
RECURSIVE IntOf(_, _, _)
IntOf(s, i, j) ==
    IF j < i THEN 0
    ELSE IF s[j] = " " THEN IntOf(s, i, j - 1)
    ELSE 10 * IntOf(s, i, j - 1) + DigitVal(s[j])

IsLeap(y) == y % 4 = 0 /\ (y % 100 # 0 \/ y % 400 = 0)

DaysInMonth(y, m) ==
    IF m = 2 THEN (IF IsLeap(y) THEN 29 ELSE 28)
    ELSE IF m \in {4, 6, 9, 11} THEN 30 ELSE 31

\* The parse: [ok |-> FALSE] where strptime raises ValueError (no match of the
\* format, unconverted data remaining, or a date the calendar does not have),
\* else the date.
strptime(s) ==
    LET ml == MonthLen(s, 6)
        dl == DayLen(s, 7 + ml)
    IN  IF ~(YearMatches(s) /\ At(s, 5) = "-" /\ ml > 0 /\ dl > 0)
        THEN [ok |-> FALSE, year |-> 0, month |-> 0, day |-> 0]
        ELSE IF Len(s) # 6 + ml + dl
        THEN [ok |-> FALSE, year |-> 0, month |-> 0, day |-> 0]
        ELSE LET y == IntOf(s, 1, 4)
                 m == IntOf(s, 6, 5 + ml)
                 d == IntOf(s, 7 + ml, 6 + ml + dl)
             IN  [ok |-> y >= 1 /\ d <= DaysInMonth(y, m),
                  year |-> y, month |-> m, day |-> d]

\* try: datetime.strptime(...) except ValueError: the try block passes.
DateAccepted(s) == strptime(s).ok

----------------------------------------------------------------------------
(* The worksheet *)

\* sheet.get_all_records(): one record per data row, in sheet order.
get_all_records(rows) ==
    [i \in 1..Len(rows) |->
        [task |-> rows[i][1], due_date |-> rows[i][2], status |-> rows[i][3]]]

\* Mutants of append_row: the row inserted above the data rows; the row
\* written over the last data row.
append_row_top(rows, values) == <<values>> \o rows
append_row_overwrite(rows, values) ==
    IF rows = <<>> THEN <<values>> ELSE [rows EXCEPT ![Len(rows)] = values]

\* sheet.append_row(values)
append_row(rows, values) == Append(rows, values)

\* Mutant of update_cell: the header row not counted.
update_cell_no_header(rows, r, c, v) == [rows EXCEPT ![r][c] = v]

\* sheet.update_cell(row, col, value): sheet row 1 is the header, so sheet
\* row r is data row r - 1.
update_cell(rows, r, c, v) == [rows EXCEPT ![r - 1][c] = v]

----------------------------------------------------------------------------
(* Return messages *)

RECURSIVE Str(_)
Str(s) == IF s = <<>> THEN "" ELSE Head(s) \o Str(Tail(s))

ErrFormat == "Error: due_date must be in YYYY-MM-DD format."
MsgAdded(t, d, s) ==
    "Task '" \o t \o "' added successfully with due date " \o Str(d)
        \o " and status '" \o s \o "'."
MsgUpdated(t) == "Task '" \o t \o "' updated successfully."
MsgNotFound(t) == "Task '" \o t \o "' not found."

----------------------------------------------------------------------------
(* The tools, one call at a time (Spec) *)

\* `if due_date:` / `if status:`: None and the empty string are falsy.
TruthyDate(a) == a.given /\ a.val # <<>>
TruthyStatus(a) == a.given /\ a.val # ""

\* status: str = "pending"
StatusOrDefault(a) == IF a.given THEN a.val ELSE "pending"

\* Mutant of FirstMatch: the loop runs on after a match, the last match wins.
FirstMatch_last(records, t) ==
    IF \E i \in 1..Len(records) : records[i].task = t
    THEN 1 + CHOOSE i \in 1..Len(records) :
                /\ records[i].task = t
                /\ \A j \in (i + 1)..Len(records) : records[j].task # t
    ELSE 0

\* for idx, record in enumerate(records, start=2): if record['task'] == task:
\* the sheet row of the first record whose task is t, 0 if there is none.
FirstMatch(records, t) ==
    IF \E i \in 1..Len(records) : records[i].task = t
    THEN 1 + CHOOSE i \in 1..Len(records) :
                /\ records[i].task = t
                /\ \A j \in 1..(i - 1) : records[j].task # t
    ELSE 0

get_tasks ==
    /\ call' = [op |-> "get_tasks", task |-> "", due_date |-> None, status |-> NoStatus]
    /\ result' = get_all_records(store)
    /\ prev' = store
    /\ UNCHANGED store
    /\ UNCHANGED raceVars

create_task(t, d, s) ==
    /\ Len(store) < MaxRows
    /\ call' = [op |-> "create_task", task |-> t, due_date |-> Some(d), status |-> s]
    /\ prev' = store
    /\ IF ~DateAccepted(d)
       THEN /\ result' = ErrFormat
            /\ UNCHANGED store
       ELSE /\ store' = append_row(store, <<t, d, StatusOrDefault(s)>>)
            /\ result' = MsgAdded(t, d, StatusOrDefault(s))
    /\ UNCHANGED raceVars

\* Mutants of AfterDateWrite and AfterStatusWrite: the cell written whether
\* or not the argument is truthy.
AfterDateWrite_always(rows, idx, d) == update_cell(rows, idx, 2, d.val)
AfterStatusWrite_always(rows, idx, s) == update_cell(rows, idx, 3, s.val)

\* The rows after the write of line 45, when it is reached.
AfterDateWrite(rows, idx, d) ==
    IF TruthyDate(d) THEN update_cell(rows, idx, 2, d.val) ELSE rows

\* The rows after the write of line 47, when it is reached.
AfterStatusWrite(rows, idx, s) ==
    IF TruthyStatus(s) THEN update_cell(rows, idx, 3, s.val) ELSE rows

\* Mutant of update_task: the date validated before the row is looked up.
update_task_validates_first(t, d, s) ==
    LET records == get_all_records(store)
        idx == FirstMatch(records, t)
    IN  /\ call' = [op |-> "update_task", task |-> t, due_date |-> d, status |-> s]
        /\ prev' = store
        /\ IF TruthyDate(d) /\ ~DateAccepted(d.val)
           THEN /\ result' = ErrFormat
                /\ UNCHANGED store
           ELSE IF idx = 0
           THEN /\ result' = MsgNotFound(t)
                /\ UNCHANGED store
           ELSE /\ store' = AfterStatusWrite(AfterDateWrite(store, idx, d), idx, s)
                /\ result' = MsgUpdated(t)
        /\ UNCHANGED raceVars

\* Mutant of update_task: the date cell written before the date is validated.
update_task_write_first(t, d, s) ==
    LET records == get_all_records(store)
        idx == FirstMatch(records, t)
    IN  /\ call' = [op |-> "update_task", task |-> t, due_date |-> d, status |-> s]
        /\ prev' = store
        /\ IF idx = 0
           THEN /\ result' = MsgNotFound(t)
                /\ UNCHANGED store
           ELSE IF TruthyDate(d) /\ ~DateAccepted(d.val)
           THEN /\ result' = ErrFormat
                /\ store' = AfterDateWrite(store, idx, d)
           ELSE /\ store' = AfterStatusWrite(AfterDateWrite(store, idx, d), idx, s)
                /\ result' = MsgUpdated(t)
        /\ UNCHANGED raceVars

update_task(t, d, s) ==
    LET records == get_all_records(store)
        idx == FirstMatch(records, t)
    IN  /\ call' = [op |-> "update_task", task |-> t, due_date |-> d, status |-> s]
        /\ prev' = store
        /\ IF idx = 0
           THEN /\ result' = MsgNotFound(t)
                /\ UNCHANGED store
           ELSE IF TruthyDate(d) /\ ~DateAccepted(d.val)
           THEN /\ result' = ErrFormat
                /\ UNCHANGED store
           ELSE /\ store' = AfterStatusWrite(AfterDateWrite(store, idx, d), idx, s)
                /\ result' = MsgUpdated(t)
        /\ UNCHANGED raceVars

Init ==
    /\ store = <<>>
    /\ call = [op |-> "none", task |-> "", due_date |-> None, status |-> NoStatus]
    /\ result = ""
    /\ prev = <<>>
    /\ pc = [p \in Procs |-> "idle"]
    /\ arg = [p \in Procs |-> [task |-> "", due_date |-> None, status |-> NoStatus]]
    /\ recs = [p \in Procs |-> <<>>]
    /\ ret = [p \in Procs |-> ""]

Next ==
    \/ get_tasks
    \/ \E t \in Tasks, d \in DateInputs, s \in CreateStatusArgs : create_task(t, d, s)
    \/ \E t \in Tasks, d \in UpdateDateArgs, s \in UpdateStatusArgs : update_task(t, d, s)

Spec == Init /\ [][Next]_vars

----------------------------------------------------------------------------
(* update_task run by two processes on one worksheet (SpecRace).  Each call *)
(* of the worksheet (get_all_records, update_cell) is one request to the    *)
(* store, and nothing is held between them, so each is a step of its own.   *)

RaceTask == "Write abstract"

RaceStore == << <<RaceTask, D_LEAP, "pending">>, <<"Search papers", D_LEAP, "pending">> >>

RaceDateArgs == {None, Some(D_ISO), Some(D_SHORT), Some(D_SLASH)}
RaceStatusArgs == {NoStatus, Some("done"), Some("completed")}

\* Lines 37-44: read all the rows, find the row, validate the date.
U_Read(p, t, d, s) ==
    LET records == get_all_records(store)
        idx == FirstMatch(records, t)
    IN  /\ pc[p] = "idle"
        /\ arg' = [arg EXCEPT ![p] = [task |-> t, due_date |-> d, status |-> s]]
        /\ recs' = [recs EXCEPT ![p] = records]
        /\ IF idx = 0
           THEN /\ ret' = [ret EXCEPT ![p] = MsgNotFound(t)]
                /\ pc' = [pc EXCEPT ![p] = "done"]
           ELSE IF TruthyDate(d) /\ ~DateAccepted(d.val)
           THEN /\ ret' = [ret EXCEPT ![p] = ErrFormat]
                /\ pc' = [pc EXCEPT ![p] = "done"]
           ELSE /\ UNCHANGED ret
                /\ pc' = [pc EXCEPT ![p] = IF TruthyDate(d) THEN "write_date" ELSE "write_status"]
        /\ UNCHANGED seqVars

\* Line 45: sheet.update_cell(idx, 2, due_date)
U_WriteDate(p) ==
    /\ pc[p] = "write_date"
    /\ store' = AfterDateWrite(store, FirstMatch(recs[p], arg[p].task), arg[p].due_date)
    /\ pc' = [pc EXCEPT ![p] = "write_status"]
    /\ UNCHANGED <<call, result, prev, arg, recs, ret>>

\* Lines 46-48: sheet.update_cell(idx, 3, status) if status, then return.
U_WriteStatus(p) ==
    /\ pc[p] = "write_status"
    /\ store' = AfterStatusWrite(store, FirstMatch(recs[p], arg[p].task), arg[p].status)
    /\ ret' = [ret EXCEPT ![p] = MsgUpdated(arg[p].task)]
    /\ pc' = [pc EXCEPT ![p] = "done"]
    /\ UNCHANGED <<call, result, prev, arg, recs>>

InitRace ==
    /\ store = RaceStore
    /\ call = [op |-> "none", task |-> "", due_date |-> None, status |-> NoStatus]
    /\ result = ""
    /\ prev = RaceStore
    /\ pc = [p \in Procs |-> "idle"]
    /\ arg = [p \in Procs |-> [task |-> "", due_date |-> None, status |-> NoStatus]]
    /\ recs = [p \in Procs |-> <<>>]
    /\ ret = [p \in Procs |-> ""]

NextRace ==
    \/ \E p \in Procs, t \in Tasks, d \in RaceDateArgs, s \in RaceStatusArgs : U_Read(p, t, d, s)
    \/ \E p \in Procs : U_WriteDate(p)
    \/ \E p \in Procs : U_WriteStatus(p)

SpecRace == InitRace /\ [][NextRace]_vars

----------------------------------------------------------------------------
(* Properties of the tools run one call at a time (Spec).  In every state   *)
(* `call` is the call that ran last, `prev` the rows before it, `store` the *)
(* rows after it and `result` what it returned.                             *)

\* Whether some row of rows has description t, and the first such row.
HasTask(rows, t) == \E i \in 1..Len(rows) : rows[i][1] = t
FirstIdx(rows, t) ==
    CHOOSE i \in 1..Len(rows) :
        rows[i][1] = t /\ \A j \in 1..(i - 1) : rows[j][1] # t

\* The text has the shape YYYY-MM-DD: four digits, two digits, two digits.
MatchesYMD(s) ==
    /\ Len(s) = 10
    /\ \A i \in {1, 2, 3, 4, 6, 7, 9, 10} : s[i] \in Digits
    /\ s[5] = "-" /\ s[8] = "-"

IsCreate == call.op = "create_task"
IsUpdate == call.op = "update_task"

\* C1: create_task(t, d, s) with a d that passes the date check returns the
\* success message and appends exactly the row [t, d, s] (s "pending" when
\* not given) after the rows that were there, which stay as they were and in
\* their order, whether or not a row with description t exists; get_tasks,
\* which returns the rows verbatim, then holds the record (t, d, s).
Thm_C1 ==
    /\ (call.op = "get_tasks") => (result = get_all_records(store) /\ store = prev)
    /\ (IsCreate /\ DateAccepted(call.due_date.val)) =>
        LET t == call.task
            d == call.due_date.val
            s == IF call.status.given THEN call.status.val ELSE "pending"
        IN  /\ result = "Task '" \o t \o "' added successfully with due date "
                            \o Str(d) \o " and status '" \o s \o "'."
            /\ Len(store) = Len(prev) + 1
            /\ \A i \in 1..Len(prev) : store[i] = prev[i]
            /\ store[Len(store)] = <<t, d, s>>
            /\ \E i \in 1..Len(store) :
                    get_all_records(store)[i] = [task |-> t, due_date |-> d, status |-> s]

\* A create_task with the default status succeeded on a store that already
\* held a row with the same description.
Wit_C1 ==
    /\ IsCreate /\ DateAccepted(call.due_date.val) /\ ~call.status.given
    /\ HasTask(prev, call.task)
    /\ Len(store) = 2 /\ store[2][3] = "pending"

\* C2: for every d that is not of the form YYYY-MM-DD, create_task(t, d)
\* returns the format error and appends no row.
Cex_C2 ==
    (IsCreate /\ ~MatchesYMD(call.due_date.val)) =>
        (result = ErrFormat /\ store = prev)

\* C3: on an existing task, update_task with a supplied due_date that fails
\* the date check (the empty string included) and status "done" returns the
\* format error and writes no cell.
Cex_C3 ==
    (/\ IsUpdate /\ HasTask(prev, call.task)
     /\ call.due_date.given /\ ~DateAccepted(call.due_date.val)
     /\ call.status = Some("done")) =>
        (result = ErrFormat /\ store = prev)

\* C4: when no row has the description, update_task returns the not-found
\* message and writes nothing, whatever due_date and status are (an invalid
\* due_date included).
Thm_C4 ==
    (IsUpdate /\ ~HasTask(prev, call.task)) =>
        (result = "Task '" \o call.task \o "' not found." /\ store = prev)

\* update_task with an invalid due_date and a status, on a non-empty store
\* that lacks the description, returned the not-found message.
Wit_C4 ==
    /\ IsUpdate /\ ~HasTask(prev, call.task) /\ Len(prev) > 0
    /\ call.due_date = Some(D_SLASH) /\ call.status = Some("done")
    /\ result = MsgNotFound(call.task)

\* C5: update_task(t) with neither due_date nor status, on a store with a row
\* t, returns the success message and leaves every row as it was.
Thm_C5 ==
    (IsUpdate /\ HasTask(prev, call.task) /\ ~call.due_date.given /\ ~call.status.given) =>
        (result = "Task '" \o call.task \o "' updated successfully." /\ store = prev)

\* Such a call ran on a store of two rows.
Wit_C5 ==
    /\ IsUpdate /\ HasTask(prev, call.task)
    /\ ~call.due_date.given /\ ~call.status.given
    /\ Len(prev) = 2 /\ result = MsgUpdated(call.task)

\* C6: a successful update_task writes only to the first row, in store order,
\* whose description is the given one: every other row, a later row with the
\* same description included, is as it was, and the truthy arguments are in
\* that first row.
Thm_C6 ==
    (IsUpdate /\ HasTask(prev, call.task) /\ result = MsgUpdated(call.task)) =>
        LET k == FirstIdx(prev, call.task)
        IN  /\ Len(store) = Len(prev)
            /\ \A i \in 1..Len(prev) : i # k => store[i] = prev[i]
            /\ TruthyDate(call.due_date) => store[k][2] = call.due_date.val
            /\ TruthyStatus(call.status) => store[k][3] = call.status.val

\* Two rows had the description; the update changed the first and not the second.
Wit_C6 ==
    /\ IsUpdate /\ result = MsgUpdated(call.task)
    /\ Len(prev) = 2 /\ prev[1][1] = call.task /\ prev[2][1] = call.task
    /\ store[1] # prev[1] /\ store[2] = prev[2]

\* The scenario of C7: the single row created from the header-only store,
\* and that row after the status update.
ScnTask == "Write abstract"
ScnCreated == << <<ScnTask, D_ISO, "pending">> >>

\* C7: a successful update_task writes only the columns whose argument was
\* supplied: the status column holds the new status and the due_date and
\* task are as they were when no due_date was supplied, and the other way
\* round.  From the header-only store, create_task("Write abstract",
\* "2025-06-05") gives the one row with status "pending", and
\* update_task("Write abstract", status="completed") on it leaves get_tasks
\* with due_date "2025-06-05" and status "completed".
Thm_C7 ==
    /\ (IsUpdate /\ HasTask(prev, call.task) /\ result = MsgUpdated(call.task)) =>
        LET k == FirstIdx(prev, call.task)
        IN  /\ store[k][1] = prev[k][1]
            /\ store[k][2] = IF TruthyDate(call.due_date)
                             THEN call.due_date.val ELSE prev[k][2]
            /\ store[k][3] = IF TruthyStatus(call.status)
                             THEN call.status.val ELSE prev[k][3]
    /\ (IsCreate /\ prev = <<>> /\ call.task = ScnTask
            /\ call.due_date = Some(D_ISO) /\ ~call.status.given) =>
        store = ScnCreated
    /\ (IsUpdate /\ prev = ScnCreated /\ call.task = ScnTask
            /\ ~call.due_date.given /\ call.status = Some("completed")) =>
        /\ result = MsgUpdated(ScnTask)
        /\ get_all_records(store) =
              << [task |-> ScnTask, due_date |-> D_ISO, status |-> "completed"] >>

\* The scenario's last state.
Wit_C7 ==
    /\ IsUpdate /\ prev = ScnCreated /\ call.task = ScnTask
    /\ ~call.due_date.given /\ call.status = Some("completed")
    /\ store = << <<ScnTask, D_ISO, "completed">> >>

\* C8: no call removes or reorders a row: the number of rows grows by one in
\* a successful create_task and is the same after any other call, and the
\* description of a row never changes.
Thm_C8 ==
    /\ Len(store) - Len(prev) = IF IsCreate /\ result # ErrFormat THEN 1 ELSE 0
    /\ \A i \in 1..Len(prev) : store[i][1] = prev[i][1]

\* An update changed a row of a store of two rows.
Wit_C8 == IsUpdate /\ Len(prev) = 2 /\ store # prev

----------------------------------------------------------------------------
(* Properties of two concurrent update_task calls (SpecRace) *)

BothUpdated ==
    \A p \in Procs :
        /\ pc[p] = "done" /\ ret[p] = MsgUpdated(RaceTask)
        /\ arg[p].task = RaceTask
        /\ TruthyDate(arg[p].due_date) /\ TruthyStatus(arg[p].status)

\* C10: update_task takes no lock: when two processes have both updated the
\* same task with success, each cell of the row holds what one of the two
\* wrote, cell by cell, so the row may be the due_date of one call with the
\* status of the other (Wit_C10); the other rows are as they were.
Thm_C10 ==
    BothUpdated =>
        /\ store[1][1] = RaceTask
        /\ store[1][2] \in {arg[p].due_date.val : p \in Procs}
        /\ store[1][3] \in {arg[p].status.val : p \in Procs}
        /\ store[2] = RaceStore[2]
        /\ Len(store) = 2

\* Both calls returned success and the row is neither call's update: the
\* due_date of process 1 with the status of process 2.
Wit_C10 ==
    /\ BothUpdated
    /\ arg[1].due_date = Some(D_ISO) /\ arg[1].status = Some("done")
    /\ arg[2].due_date = Some(D_SHORT) /\ arg[2].status = Some("completed")
    /\ store[1] = <<RaceTask, D_ISO, "completed">>

====
